---- MODULE Spec2Model ----
(***************************************************************************)
(* Model of psychopy/tools/monitorunittools.py: the unit registry          *)
(* (_unit2PixMappings), the dispatcher convertToPix, the registration      *)
(* function addUnitTypeConversion and the six pairwise converters.         *)
(*                                                                         *)
(* The module body is executed statement by statement (ModuleStep) and     *)
(* stops at its first uncaught exception.  The call actions model the      *)
(* bodies of the functions the source defines; they are enabled once the   *)
(* module body has ended (run to its end or raised) and act on the         *)
(* registry the module body has built.  Names used inside function bodies  *)
(* are resolved against the names the module body binds (ModuleNames).     *)
(*                                                                         *)
(* Numbers are Python floats in the source.  They are modelled as          *)
(* fixed-point integers with Scale units per 1.0; every multiplication and *)
(* division rounds (towards minus infinity), so that the order of the      *)
(* operations matters as it does for floats.  Measurements, vertices and   *)
(* positions are scalars.  Monitor properties that are set are positive.   *)
(***************************************************************************)
EXTENDS Integers, Sequences, FiniteSets, TLC

VARIABLES pc, registry, initErr, last

vars == <<pc, registry, initErr, last>>

(***************************************************************************)
(* Bounds of the model.                                                    *)
(***************************************************************************)
\* measurements range over -MaxMeasure .. MaxMeasure whole units
MaxMeasure == 2
\* fixed-point units per 1.0
Scale == 100

(***************************************************************************)
(* The constant 0.017455 of cm2deg and deg2cm, as a fraction.              *)
(***************************************************************************)
DegFactorNum == 17455
DegFactorDen == 1000000

\* x * y for two fixed-point numbers
FMul(x, y) == (x * y) \div Scale
\* x / y for two fixed-point numbers
FDiv(x, y) == (x * Scale) \div y
\* x * 0.017455
FMulDegFactor(x) == (x * DegFactorNum) \div DegFactorDen

(***************************************************************************)
(* Python's None for an optional value: the empty tuple; a value that is   *)
(* set is a one-element tuple (a number) or a pair (a pixel size).         *)
(***************************************************************************)
None == <<>>

Measurements == {k * Scale : k \in (0 - MaxMeasure)..MaxMeasure}
\* the pos argument of convertToPix
Positions == {0, Scale}

(***************************************************************************)
(* The second argument of the pairwise converters.  kind "Monitor" is an   *)
(* instance of monitors.Monitor; "duck" is an object of another class that *)
(* has getDistance, getWidth and getSizePix; "plain" is an object that has *)
(* none of them.                                                           *)
(***************************************************************************)
Distances == {None, <<57 * Scale>>}
Widths == {None, <<40 * Scale>>}
SizesPix == {None, <<1024, 768>>}

MonitorArgs ==
    [kind : {"Monitor", "duck"}, dist : Distances, width : Widths, sizePix : SizesPix]
    \cup [kind : {"plain"}, dist : {None}, width : {None}, sizePix : {None}]

\* win: its size in pixels and its monitor attribute
Windows == [size : {<<800, 600>>},
            monitor : {m \in MonitorArgs : m.kind # "duck"}]

\* isinstance(monitor, monitors.Monitor)
IsMonitor(monitor) == monitor.kind = "Monitor"
\* monitor.getWidth etc. can be looked up
HasGetters(monitor) == monitor.kind \in {"Monitor", "duck"}

(***************************************************************************)
(* Outcome of a call: exc = "none" and the returned value val, or the      *)
(* exception raised (its class exc, its message msg and the name the       *)
(* message mentions).  q is the sequence of property queries made on the   *)
(* monitor argument during the call.                                       *)
(***************************************************************************)
Ret(v, q) == [exc |-> "none", msg |-> "", name |-> "", val |-> v, q |-> q]
Raise(e, m, n, q) == [exc |-> e, msg |-> m, name |-> n, val |-> 0, q |-> q]
\* an outcome of a callee, with the caller's earlier queries in front
After(q, r) == [r EXCEPT !.q = q \o r.q]

MsgNoMonitor == "requires a monitors.Monitor object"
MsgNoDistance == "has no known distance"
MsgNoSizePix == "has no known size in pixels"
MsgNoWidth == "has no known width in cm"
MsgNotRegistered == "is not registered with PsychoPy"
MsgAlreadyRegistered == "is already registered with PsychoPy"

(***************************************************************************)
(* The pairwise converters.                                                *)
(***************************************************************************)
cm2deg(cm, monitor) ==
    IF ~IsMonitor(monitor)
    THEN Raise("ValueError", MsgNoMonitor, "cm2deg", <<>>)
    ELSE LET dist == monitor.dist
             q == <<"getDistance">>
         IN  IF dist = None
             THEN Raise("ValueError", MsgNoDistance, "", q)
             ELSE Ret(FDiv(cm, FMulDegFactor(dist[1])), q)

\* deg2cm with a viewing distance of 57 cm assumed when none is set
deg2cm_defaultDistance(degrees, monitor) ==
    IF ~IsMonitor(monitor)
    THEN Raise("ValueError", MsgNoMonitor, "deg2cm", <<>>)
    ELSE LET dist == IF monitor.dist = None THEN <<57 * Scale>> ELSE monitor.dist
             q == <<"getDistance">>
         IN  Ret(FMulDegFactor(FMul(degrees, dist[1])), q)

deg2cm(degrees, monitor) ==
    IF ~IsMonitor(monitor)
    THEN Raise("ValueError", MsgNoMonitor, "deg2cm", <<>>)
    ELSE LET dist == monitor.dist
             q == <<"getDistance">>
         IN  IF dist = None
             THEN Raise("ValueError", MsgNoDistance, "", q)
             ELSE Ret(FMulDegFactor(FMul(degrees, dist[1])), q)

\* cm2pix with the width checked before the size in pixels
cm2pix_widthFirst(cm, monitor) ==
    IF ~IsMonitor(monitor)
    THEN Raise("ValueError", MsgNoMonitor, "cm2pix", <<>>)
    ELSE LET scrWidthCm == monitor.width
             scrSizePix == monitor.sizePix
             q == <<"getWidth", "getSizePix">>
         IN  IF scrWidthCm = None
             THEN Raise("ValueError", MsgNoWidth, "", q)
             ELSE IF scrSizePix = None
             THEN Raise("ValueError", MsgNoSizePix, "", q)
             ELSE Ret(FDiv(cm * scrSizePix[1], scrWidthCm[1]), q)

cm2pix(cm, monitor) ==
    IF ~IsMonitor(monitor)
    THEN Raise("ValueError", MsgNoMonitor, "cm2pix", <<>>)
    ELSE LET scrWidthCm == monitor.width
             scrSizePix == monitor.sizePix
             q == <<"getWidth", "getSizePix">>
         IN  IF scrSizePix = None
             THEN Raise("ValueError", MsgNoSizePix, "", q)
             ELSE IF scrWidthCm = None
             THEN Raise("ValueError", MsgNoWidth, "", q)
             ELSE Ret(FDiv(cm * scrSizePix[1], scrWidthCm[1]), q)

pix2cm(pixels, monitor) ==
    IF ~IsMonitor(monitor)
    THEN Raise("ValueError", MsgNoMonitor, "cm2pix", <<>>)
    ELSE LET scrWidthCm == monitor.width
             scrSizePix == monitor.sizePix
             q == <<"getWidth", "getSizePix">>
         IN  IF scrSizePix = None
             THEN Raise("ValueError", MsgNoSizePix, "", q)
             ELSE IF scrWidthCm = None
             THEN Raise("ValueError", MsgNoWidth, "", q)
             ELSE Ret(FMul(pixels, scrWidthCm[1]) \div scrSizePix[1], q)

\* deg2pix scaling by the height in pixels, scrSizePix[1] in Python
deg2pix_height(degrees, monitor, kwargs) ==
    IF kwargs # {}
    THEN Raise("TypeError", "got an unexpected keyword argument", "deg2pix", <<>>)
    ELSE IF ~HasGetters(monitor)
    THEN Raise("AttributeError", "has no attribute", "getWidth", <<"getWidth">>)
    ELSE LET scrWidthCm == monitor.width
             scrSizePix == monitor.sizePix
             q == <<"getWidth", "getSizePix">>
         IN  IF scrSizePix = None
             THEN Raise("ValueError", MsgNoSizePix, "", q)
             ELSE IF scrWidthCm = None
             THEN Raise("ValueError", MsgNoWidth, "", q)
             ELSE LET cmSize == deg2cm(degrees, monitor)
                  IN  IF cmSize.exc # "none"
                      THEN After(q, cmSize)
                      ELSE Ret(FDiv(cmSize.val * scrSizePix[2], scrWidthCm[1]),
                               q \o cmSize.q)

\* kwargs: the keyword arguments of the call; def deg2pix(degrees, monitor)
\* takes none
deg2pix(degrees, monitor, kwargs) ==
    IF kwargs # {}
    THEN Raise("TypeError", "got an unexpected keyword argument", "deg2pix", <<>>)
    ELSE IF ~HasGetters(monitor)
    THEN Raise("AttributeError", "has no attribute", "getWidth", <<"getWidth">>)
    ELSE LET scrWidthCm == monitor.width
             scrSizePix == monitor.sizePix
             q == <<"getWidth", "getSizePix">>
         IN  IF scrSizePix = None
             THEN Raise("ValueError", MsgNoSizePix, "", q)
             ELSE IF scrWidthCm = None
             THEN Raise("ValueError", MsgNoWidth, "", q)
             ELSE LET cmSize == deg2cm(degrees, monitor)
                  IN  IF cmSize.exc # "none"
                      THEN After(q, cmSize)
                      ELSE Ret(FDiv(cmSize.val * scrSizePix[1], scrWidthCm[1]),
                               q \o cmSize.q)

pix2deg(pixels, monitor) ==
    IF ~HasGetters(monitor)
    THEN Raise("AttributeError", "has no attribute", "getWidth", <<"getWidth">>)
    ELSE LET scrWidthCm == monitor.width
             scrSizePix == monitor.sizePix
             q == <<"getWidth", "getSizePix">>
         IN  IF scrSizePix = None
             THEN Raise("ValueError", MsgNoSizePix, "", q)
             ELSE IF scrWidthCm = None
             THEN Raise("ValueError", MsgNoWidth, "", q)
             ELSE LET cmSize == FMul(pixels, scrWidthCm[1]) \div scrSizePix[1]
                  IN  After(q, cm2deg(cmSize, monitor))


(***************************************************************************)
(* The converters the module body registers, (vertices, pos, win) -> pix.  *)
(* A converter is named by the name of its def.                            *)
(***************************************************************************)
pix2pix(vertices, pos, win) == Ret(pos + vertices, <<>>)

_cm2pix(vertices, pos, win) == cm2pix(pos + vertices, win.monitor)

_deg2pix(vertices, pos, win) == deg2pix(pos + vertices, win.monitor, {})

_degFlatPos2pix(vertices, pos, win) ==
    LET posCorrected == deg2pix(pos, win.monitor, {"correctFlat"})
    IN  IF posCorrected.exc # "none"
        THEN posCorrected
        ELSE LET vertices2 == deg2pix(vertices, win.monitor, {"correctFlat"})
             IN  IF vertices2.exc # "none"
                 THEN After(posCorrected.q, vertices2)
                 ELSE Ret(posCorrected.val + vertices2.val,
                          posCorrected.q \o vertices2.q)

_degFlat2pix(vertices, pos, win) ==
    deg2pix(pos + vertices, win.monitor, {"correctFlat"})

(***************************************************************************)
(* Values a caller passes as mapping_func: a converter of the caller       *)
(* (userFn, here twice the sum) or None.                                   *)
(***************************************************************************)
NoneFn == "None"
MappingFuncs == {"userFn", NoneFn}

userFn(vertices, pos, win) == Ret(2 * (pos + vertices), <<>>)

\* the call unit2pix_func(vertices, pos, win)
Apply(f, vertices, pos, win) ==
    CASE f = "pix2pix" -> pix2pix(vertices, pos, win)
      [] f = "_cm2pix" -> _cm2pix(vertices, pos, win)
      [] f = "_deg2pix" -> _deg2pix(vertices, pos, win)
      [] f = "_degFlatPos2pix" -> _degFlatPos2pix(vertices, pos, win)
      [] f = "_degFlat2pix" -> _degFlat2pix(vertices, pos, win)
      [] f = "userFn" -> userFn(vertices, pos, win)
      [] OTHER -> Raise("TypeError", "object is not callable", f, <<>>)

\* truth value of a registry value in "if unit2pix_func:"
Truthy(f) == f # NoneFn

(***************************************************************************)
(* The module body: its top-level statements in order.  "bind" binds name  *)
(* (import, def, assignment of the empty dict); "setitem" is               *)
(* name[label] = ref, which looks up name and ref.                         *)
(***************************************************************************)
Bind(l, n) == [line |-> l, kind |-> "bind", name |-> n, label |-> "", ref |-> ""]
SetItem(l, n, k, r) == [line |-> l, kind |-> "setitem", name |-> n, label |-> k, ref |-> r]

ModuleBody ==
    << Bind(10, "monitors"),
       Bind(14, "_unit2PixMappings"),
       Bind(17, "pix2pix"),
       SetItem(19, "_unit2PixMappings", "pix", "pix2pix"),
       Bind(21, "_cm2pix"),
       SetItem(23, "_unit2PixMappings", "cm", "_cm2pix"),
       Bind(25, "_deg2pix"),
       SetItem(27, "_unit2PixMappings", "deg", "_deg2pix"),
       Bind(29, "_degFlatPos2pix"),
       SetItem(33, "_unit2PixMappings", "degFlatPos", "_degFlatPos2pix"),
       Bind(35, "_degFlat2pix"),
       SetItem(37, "_unit2PixMappings", "degFlat", "_degFlat2pix"),
       Bind(39, "_norm2pix"),
       SetItem(41, "_unit2PixMappings", "norm", "norm2pix"),
       Bind(43, "_height2pix"),
       SetItem(45, "_unit2PixMappings", "height", "height2pix"),
       Bind(47, "convertToPix"),
       Bind(62, "addUnitTypeConversion"),
       Bind(86, "cm2deg"),
       Bind(99, "deg2cm"),
       Bind(112, "cm2pix"),
       Bind(128, "pix2cm"),
       Bind(143, "deg2pix"),
       Bind(157, "pix2deg") >>

\* the names bound by the statements before statement i
BoundBefore(i) ==
    {ModuleBody[j].name : j \in {k \in 1..(i - 1) : ModuleBody[k].kind = "bind"}}

\* the names the module body binds
ModuleNames == BoundBefore(Len(ModuleBody) + 1)

\* the module body has run to its end or has raised
ModuleEnded == pc > Len(ModuleBody) \/ initErr # "none"

(***************************************************************************)
(* convertToPix and addUnitTypeConversion, as functions of the registry.   *)
(***************************************************************************)
\* _unit2PixMappings.get(units)
Get(reg, units) == IF units \in DOMAIN reg THEN reg[units] ELSE NoneFn

\* convertToPix falling back to pix2pix for a label that is not registered
convertToPix_default(reg, vertices, pos, units, win) ==
    LET unit2pix_func == IF units \in DOMAIN reg THEN reg[units] ELSE "pix2pix"
    IN  IF Truthy(unit2pix_func)
        THEN [out |-> Apply(unit2pix_func, vertices, pos, win),
              invoked |-> <<unit2pix_func, vertices, pos, win>>]
        ELSE [out |-> Raise("ValueError", MsgNotRegistered, units, <<>>),
              invoked |-> <<>>]

\* out: the outcome; invoked: the converter called and its arguments
convertToPix(reg, vertices, pos, units, win) ==
    LET unit2pix_func == Get(reg, units)
    IN  IF Truthy(unit2pix_func)
        THEN [out |-> Apply(unit2pix_func, vertices, pos, win),
              invoked |-> <<unit2pix_func, vertices, pos, win>>]
        ELSE [out |-> Raise("ValueError", MsgNotRegistered, units, <<>>),
              invoked |-> <<>>]

\* addUnitTypeConversion storing into the registry without any check
addUnitTypeConversion_overwrite(reg, unit_label, mapping_func) ==
    [out |-> Ret(0, <<>>), reg |-> (unit_label :> mapping_func) @@ reg]

\* out: the outcome; reg: the registry after the call.  The body names the
\* dictionary unit2PixMappings.
addUnitTypeConversion(reg, unit_label, mapping_func) ==
    IF "unit2PixMappings" \notin ModuleNames
    THEN [out |-> Raise("NameError", "is not defined", "unit2PixMappings", <<>>),
          reg |-> reg]
    ELSE IF unit_label \in DOMAIN reg
    THEN [out |-> Raise("ValueError", MsgAlreadyRegistered, unit_label, <<>>),
          reg |-> reg]
    ELSE [out |-> Ret(0, <<>>),
          reg |-> (unit_label :> mapping_func) @@ reg]

(***************************************************************************)
(* State.  pc: index of the next statement of the module body; registry:   *)
(* the dictionary _unit2PixMappings; initErr: the exception that ended the *)
(* module body ("none" if none); last: the last call, its arguments, the   *)
(* registry before it, its outcome and the converter it invoked.           *)
(***************************************************************************)
BuiltinLabels == {"pix", "cm", "deg", "degFlat", "degFlatPos", "norm", "height"}
Labels == BuiltinLabels \cup {"myUnit", "bogus"}

NoCall == [op |-> "none", args |-> <<>>, pre |-> <<>>, out |-> Ret(0, <<>>),
           invoked |-> <<>>]

Init ==
    /\ pc = 1
    /\ registry = <<>>
    /\ initErr = "none"
    /\ last = NoCall

\* one top-level statement of the module body
ModuleStep ==
    /\ ~ModuleEnded
    /\ LET s == ModuleBody[pc]
       IN  IF s.kind = "bind"
           THEN /\ pc' = pc + 1
                /\ UNCHANGED <<registry, initErr>>
           ELSE IF {s.name, s.ref} \subseteq BoundBefore(pc)
           THEN /\ registry' = (s.label :> s.ref) @@ registry
                /\ pc' = pc + 1
                /\ UNCHANGED initErr
           ELSE /\ initErr' = "NameError"
                /\ UNCHANGED <<pc, registry>>
    /\ UNCHANGED last

Pairwise(name, x, monitor) ==
    CASE name = "cm2deg" -> cm2deg(x, monitor)
      [] name = "deg2cm" -> deg2cm(x, monitor)
      [] name = "cm2pix" -> cm2pix(x, monitor)
      [] name = "pix2cm" -> pix2cm(x, monitor)
      [] name = "deg2pix" -> deg2pix(x, monitor, {})
      [] name = "pix2deg" -> pix2deg(x, monitor)

\* a call name(x, monitor) of a pairwise converter
PairwiseCall(name) ==
    /\ ModuleEnded
    /\ \E x \in Measurements, monitor \in MonitorArgs :
          last' = [op |-> name, args |-> <<x, monitor>>, pre |-> registry,
                   out |-> Pairwise(name, x, monitor), invoked |-> <<>>]
    /\ UNCHANGED <<pc, registry, initErr>>

Cm2degCall == PairwiseCall("cm2deg")
Deg2cmCall == PairwiseCall("deg2cm")
Cm2pixCall == PairwiseCall("cm2pix")
Pix2cmCall == PairwiseCall("pix2cm")
Deg2pixCall == PairwiseCall("deg2pix")
Pix2degCall == PairwiseCall("pix2deg")

ConvertToPixCall ==
    /\ ModuleEnded
    /\ \E vertices \in Measurements, pos \in Positions,
          units \in Labels, win \in Windows :
          LET r == convertToPix(registry, vertices, pos, units, win)
          IN  last' = [op |-> "convertToPix",
                       args |-> <<vertices, pos, units, win>>,
                       pre |-> registry, out |-> r.out, invoked |-> r.invoked]
    /\ UNCHANGED <<pc, registry, initErr>>

AddUnitTypeConversionCall ==
    /\ ModuleEnded
    /\ \E unit_label \in Labels, mapping_func \in MappingFuncs :
          LET r == addUnitTypeConversion(registry, unit_label, mapping_func)
          IN  /\ registry' = r.reg
              /\ last' = [op |-> "addUnitTypeConversion",
                          args |-> <<unit_label, mapping_func>>,
                          pre |-> registry, out |-> r.out, invoked |-> <<>>]
    /\ UNCHANGED <<pc, initErr>>

Next ==
    \/ ModuleStep
    \/ Cm2degCall
    \/ Deg2cmCall
    \/ Cm2pixCall
    \/ Pix2cmCall
    \/ Deg2pixCall
    \/ Pix2degCall
    \/ ConvertToPixCall
    \/ AddUnitTypeConversionCall

Spec == Init /\ [][Next]_vars

TypeOK ==
    /\ pc \in 1..(Len(ModuleBody) + 1)
    /\ DOMAIN registry \subseteq Labels
    /\ initErr \in {"none", "NameError"}


(***************************************************************************)
(* Properties.                                                             *)
(***************************************************************************)
PairwiseOps == {"cm2deg", "deg2cm", "cm2pix", "pix2cm", "deg2pix", "pix2deg"}

\* the monitor properties a pairwise converter needs
Required(op) ==
    CASE op \in {"cm2deg", "deg2cm"} -> {"dist"}
      [] op \in {"cm2pix", "pix2cm"} -> {"width", "sizePix"}
      [] op \in {"deg2pix", "pix2deg"} -> {"dist", "width", "sizePix"}

\* the required properties that are unset
Unset(op, monitor) == {prop \in Required(op) : monitor[prop] = None}

MsgOf(prop) ==
    CASE prop = "dist" -> MsgNoDistance
      [] prop = "width" -> MsgNoWidth
      [] prop = "sizePix" -> MsgNoSizePix

\* the first property of the sequence order that op requires and is unset
FirstMissing(order, op, monitor) ==
    LET idx == {i \in 1..Len(order) : order[i] \in Unset(op, monitor)}
    IN  order[CHOOSE i \in idx : \A j \in idx : i <= j]

\* the registry the module body is written to build
BuiltinRegistry ==
    [l \in BuiltinLabels |->
        CASE l = "pix" -> "pix2pix"
          [] l = "cm" -> "_cm2pix"
          [] l = "deg" -> "_deg2pix"
          [] l = "degFlat" -> "_degFlat2pix"
          [] l = "degFlatPos" -> "_degFlatPos2pix"
          [] l = "norm" -> "_norm2pix"
          [] l = "height" -> "_height2pix"]

\* C1: once the module body has ended, it has ended without an exception and
\* the registry holds exactly the seven built-in labels, each mapped to its
\* built-in converter.
C1_BuiltinsRegistered ==
    ModuleEnded => (initErr = "none" /\ registry = BuiltinRegistry)

\* C2: addUnitTypeConversion(L, fn) for a label L that is not registered
\* succeeds and registers fn for L, and a convertToPix for a label that was
\* added invokes the registered fn with (v, p, win) and returns its result.
C2_AddThenDispatch ==
    /\ (last.op = "addUnitTypeConversion" /\ last.args[1] \notin DOMAIN last.pre)
          => /\ last.out.exc = "none"
             /\ last.args[1] \in DOMAIN registry
             /\ registry[last.args[1]] = last.args[2]
    /\ (last.op = "convertToPix" /\ last.args[3] \in DOMAIN last.pre \ BuiltinLabels)
          => /\ last.invoked = <<last.pre[last.args[3]], last.args[1],
                                 last.args[2], last.args[4]>>
             /\ last.out = Apply(last.pre[last.args[3]], last.args[1],
                                 last.args[2], last.args[4])

\* C3: addUnitTypeConversion(L, fn) for a label L that is registered fails
\* with the duplicate-unit error and leaves the registry as it was.
C3_DuplicateRejected ==
    (last.op = "addUnitTypeConversion" /\ last.args[1] \in DOMAIN last.pre)
       => /\ last.out.exc = "ValueError"
          /\ last.out.msg = MsgAlreadyRegistered
          /\ last.out.name = last.args[1]
          /\ registry = last.pre

C5_AppendOnly ==
    [][ModuleEnded =>
         /\ \A l \in DOMAIN registry :
               l \in DOMAIN registry' /\ registry'[l] = registry[l]
         /\ registry' # registry =>
               /\ last'.op = "addUnitTypeConversion"
               /\ last'.out.exc = "none"
               /\ DOMAIN registry' = DOMAIN registry \cup {last'.args[1]}
               /\ last'.args[1] \notin DOMAIN registry]_vars

\* a registration was attempted for a registered label with another value,
\* and the label is still mapped to its converter
C5_Witness ==
    /\ last.op = "addUnitTypeConversion"
    /\ last.args[1] = "pix"
    /\ last.args[2] = "userFn"
    /\ "pix" \in DOMAIN registry
    /\ registry["pix"] = "pix2pix"

\* C6: a pairwise converter whose second argument is not a Monitor raises
\* the invalid-argument-type error and has made no property query on it.
C6_TypeCheckedFirst ==
    (last.op \in PairwiseOps /\ ~IsMonitor(last.args[2]))
       => /\ last.out.exc = "ValueError"
          /\ last.out.msg = MsgNoMonitor
          /\ last.out.q = <<>>

\* the pairwise converters that need more than one property
MultiPropertyOps == {"cm2pix", "pix2cm", "deg2pix", "pix2deg"}

\* C7 as stated: with more than one required property unset on a Monitor,
\* the error is the one of the first missing property in the order viewing
\* distance, physical width, pixel resolution.
C7_TableOrder ==
    (/\ last.op \in MultiPropertyOps
     /\ IsMonitor(last.args[2])
     /\ Cardinality(Unset(last.op, last.args[2])) >= 2)
       => /\ last.out.exc = "ValueError"
          /\ last.out.msg =
                MsgOf(FirstMissing(<<"dist", "width", "sizePix">>,
                                   last.op, last.args[2]))

\* C7 amended: with more than one required property unset on a Monitor, the
\* error is the one of the first missing property in the order pixel
\* resolution, physical width, viewing distance.
C7_CheckOrder ==
    (/\ last.op \in MultiPropertyOps
     /\ IsMonitor(last.args[2])
     /\ Cardinality(Unset(last.op, last.args[2])) >= 2)
       => /\ last.out.exc = "ValueError"
          /\ last.out.msg =
                MsgOf(FirstMissing(<<"sizePix", "width", "dist">>,
                                   last.op, last.args[2]))

\* cm2pix was called on a Monitor with neither width nor pixel size set and
\* raised the pixel-size error
C7_Witness ==
    /\ last.op = "cm2pix"
    /\ IsMonitor(last.args[2])
    /\ last.args[2].width = None
    /\ last.args[2].sizePix = None
    /\ last.out.msg = MsgNoSizePix

\* C8: on a Monitor, a pairwise converter raises a configuration error and
\* returns no value whenever a property it requires is unset; it returns a
\* value only when all the properties it requires are set.
C8_UnsetPropertyFails ==
    (last.op \in PairwiseOps /\ IsMonitor(last.args[2])) =>
       /\ Unset(last.op, last.args[2]) # {} =>
             /\ last.out.exc = "ValueError"
             /\ last.out.msg \in {MsgNoDistance, MsgNoWidth, MsgNoSizePix}
       /\ last.out.exc = "none" => Unset(last.op, last.args[2]) = {}

\* pix2deg was called on a Monitor that lacks only the distance and raised
C8_Witness ==
    /\ last.op = "pix2deg"
    /\ IsMonitor(last.args[2])
    /\ Unset("pix2deg", last.args[2]) = {"dist"}
    /\ last.out.exc = "ValueError"
    /\ last.out.msg = MsgNoDistance

\* the Monitor has distance, width and pixel size set
FullyConfigured(monitor) ==
    IsMonitor(monitor) /\ Unset("deg2pix", monitor) = {}

\* C9: with a fully configured monitor, convertToPix for degFlatPos and for
\* degFlat does not fail: degFlatPos returns deg2pix of p with the flat
\* correction plus deg2pix of v without it, degFlat returns deg2pix of p+v
\* with the flat correction.
C9_FlatModesAccepted ==
    (/\ last.op = "convertToPix"
     /\ last.args[3] \in {"degFlat", "degFlatPos"}
     /\ FullyConfigured(last.args[4].monitor))
       => LET v == last.args[1]
              p == last.args[2]
              m == last.args[4].monitor
          IN  /\ last.out.exc = "none"
              /\ last.args[3] = "degFlat" =>
                    last.out.val = deg2pix(p + v, m, {"correctFlat"}).val
              /\ last.args[3] = "degFlatPos" =>
                    last.out.val = deg2pix(p, m, {"correctFlat"}).val
                                   + deg2pix(v, m, {"correctFlat"}).val

\* C10: on a Monitor m, deg2pix(d, m) and cm2pix(deg2cm(d, m), m) return the
\* same value when distance, width and pixel size are all set, and both fail
\* otherwise.
C10_CompositeConsistency ==
    (last.op = "deg2pix" /\ IsMonitor(last.args[2])) =>
       LET d == last.args[1]
           m == last.args[2]
           cmSize == deg2cm(d, m)
           composite == IF cmSize.exc # "none" THEN cmSize
                        ELSE cm2pix(cmSize.val, m)
       IN  IF Unset("deg2pix", m) = {}
           THEN /\ last.out.exc = "none"
                /\ composite.exc = "none"
                /\ last.out.val = composite.val
           ELSE /\ last.out.exc # "none"
                /\ composite.exc # "none"

\* deg2pix returned a value other than 0 on a fully configured Monitor
C10_Witness ==
    /\ last.op = "deg2pix"
    /\ FullyConfigured(last.args[2])
    /\ last.out.exc = "none"
    /\ last.out.val # 0

====
